---- MODULE Spec2Model ----
(***************************************************************************)
(* Model of ReportesTurnoopenpyxl.py: process_file (the sheet extractor)   *)
(* and process_year_folder (the folder aggregator).                        *)
(*                                                                         *)
(* Values.  A cell value, a header or a column name is a record            *)
(* [k, s]: k is the Python type ("none" for None, "str", "num", "nan" for  *)
(* the NaN pandas fills in) and s is the text as a sequence of tokens, so  *)
(* that strip() and the '^Unnamed' match are computed on the text.         *)
(* A Python index i is position i + 1 of a TLA+ sequence.                  *)
(*                                                                         *)
(* pandas behaviour modelled (pandas 1.x / 2.x with object-dtype column    *)
(* indexes): Index.str raises AttributeError on a numeric Index;            *)
(* str.contains yields NaN for a non-string label and NaN == False is      *)
(* False; concat raises InvalidIndexError when a frame has duplicated      *)
(* column labels and the frames' columns are not all equal.                *)
(* openpyxl: sheet_state is 'visible', 'hidden' or 'veryHidden'.           *)
(***************************************************************************)
EXTENDS Integers, Sequences, FiniteSets, TLC

\* Bound: the largest number of directory entries in the input folder.
MaxFiles == 3

\* Program constants.
MinRows == 5
HeaderIdx == 4
MaxCols == 11
StartRow == 5

(***************************************************************************)
(* Cell values and text                                                    *)
(***************************************************************************)
None == [k |-> "none", s |-> <<>>]
NaN == [k |-> "nan", s |-> <<>>]
Text(s) == [k |-> "str", s |-> s]
Num(s) == [k |-> "num", s |-> s]

\* str(cell) if cell is not None else ''
CellToText(cell) == IF cell.k = "none" THEN Text(<<>>) ELSE Text(cell.s)

RECURSIVE LStrip(_)
LStrip(s) == IF Len(s) > 0 /\ Head(s) = " " THEN LStrip(Tail(s)) ELSE s

RECURSIVE RStrip(_)
RStrip(s) == IF Len(s) > 0 /\ s[Len(s)] = " " THEN RStrip(SubSeq(s, 1, Len(s) - 1)) ELSE s

\* str.strip() on one label
Strip(s) == RStrip(LStrip(s))

\* re.search('^Unnamed', label) on a string label
StartsWithUnnamed(s) == Len(s) > 0 /\ Head(s) = "Unnamed"

\* file_name.endswith('.xlsx')
EndsWithXlsx(name) == Len(name) > 0 /\ name[Len(name)] = ".xlsx"

\* os.path.join(input_folder, file_name) and os.path.basename(file_path)
PathJoin(dir, name) == [dir |-> dir, base |-> name]
Basename(path) == path.base

(***************************************************************************)
(* DataFrames                                                              *)
(***************************************************************************)
EmptyDF == [columns |-> <<>>, rows |-> <<>>]

RECURSIVE Flatten(_)
Flatten(ss) == IF Len(ss) = 0 THEN <<>> ELSE Head(ss) \o Flatten(Tail(ss))

\* The positions at which mask is TRUE, in order.
Indices(mask) == SelectSeq([j \in 1..Len(mask) |-> j], LAMBDA j : mask[j])

\* pd.DataFrame(rows, columns=headers)
DataFrame(rows, columns) == [columns |-> columns, rows |-> rows]

\* df.loc[:, mask]
Loc(df, mask) ==
    LET idx == Indices(mask)
    IN  [columns |-> [p \in 1..Len(idx) |-> df.columns[idx[p]]],
         rows |-> [r \in 1..Len(df.rows) |->
                      [p \in 1..Len(idx) |-> df.rows[r][idx[p]]]]]

\* df[name] = value (a scalar): every column labelled name is overwritten,
\* or a new last column is added.
SetColumn(df, name, value) ==
    IF \E j \in 1..Len(df.columns) : df.columns[j] = name
    THEN [columns |-> df.columns,
          rows |-> [r \in 1..Len(df.rows) |->
                       [j \in 1..Len(df.columns) |->
                           IF df.columns[j] = name THEN value ELSE df.rows[r][j]]]]
    ELSE [columns |-> Append(df.columns, name),
          rows |-> [r \in 1..Len(df.rows) |-> Append(df.rows[r], value)]]

HasDuplicates(columns) ==
    \E a, b \in 1..Len(columns) : a # b /\ columns[a] = columns[b]

\* The union of the frames' column labels in first-seen order.
UnionColumns(objs) ==
    LET all == Flatten([j \in 1..Len(objs) |-> objs[j].columns])
        idx == Indices([j \in 1..Len(all) |-> \A m \in 1..(j - 1) : all[m] # all[j]])
    IN  [p \in 1..Len(idx) |-> all[idx[p]]]

\* The rows of df under the labels columns, NaN where df has no such column.
Reindex(df, columns) ==
    [r \in 1..Len(df.rows) |->
        [p \in 1..Len(columns) |->
            IF \E q \in 1..Len(df.columns) : df.columns[q] = columns[p]
            THEN df.rows[r][CHOOSE q \in 1..Len(df.columns) : df.columns[q] = columns[p]]
            ELSE NaN]]

\* pd.concat(objs, ignore_index=True): [raised, df].
Concat(objs) ==
    IF Len(objs) = 0
    THEN [raised |-> TRUE, df |-> EmptyDF]
    ELSE IF \A j \in 1..Len(objs) : objs[j].columns = objs[1].columns
    THEN [raised |-> FALSE,
          df |-> [columns |-> objs[1].columns,
                  rows |-> Flatten([j \in 1..Len(objs) |-> objs[j].rows])]]
    ELSE IF \E j \in 1..Len(objs) : HasDuplicates(objs[j].columns)
    THEN [raised |-> TRUE, df |-> EmptyDF]
    ELSE LET columns == UnionColumns(objs)
         IN  [raised |-> FALSE,
              df |-> [columns |-> columns,
                      rows |-> Flatten([j \in 1..Len(objs) |-> Reindex(objs[j], columns)])]]

(***************************************************************************)
(* process_file                                                            *)
(***************************************************************************)
FileNameCol == Text(<<"File Name">>)
SheetNameCol == Text(<<"Sheet Name">>)

LogEntry(level, msg) == [level |-> level, msg |-> msg]

\* row[:11]
TruncateAll(row) == row
Truncate(row) == SubSeq(row, 1, IF Len(row) < MaxCols THEN Len(row) ELSE MaxCols)

\* len(data) < 5
TooFewRowsLax(data) == Len(data) < MinRows - 2
TooFewRows(data) == Len(data) < MinRows

\* sheet_name == 'Hoja1' or workbook[sheet_name].sheet_state == 'hidden'
SkipSheet(sheet) == sheet.name = "Hoja1" \/ sheet.sheet_state = "hidden"

\* df.columns.str exists: the labels are not a numeric Index.
HasStrAccessor(columns) ==
    \/ \A j \in 1..Len(columns) : columns[j].k = "none"
    \/ \E j \in 1..Len(columns) : columns[j].k = "str"

\* df.columns.str.contains('^Unnamed') == False, one label
NotUnnamed(label) == label.k = "str" /\ ~StartsWithUnnamed(label.s)

\* df.columns = df.columns.str.strip()
StripColumns(df) ==
    [columns |-> [j \in 1..Len(df.columns) |->
                     IF df.columns[j].k = "str"
                     THEN Text(Strip(df.columns[j].s)) ELSE NaN],
     rows |-> df.rows]

Outcome(kind, df, log) == [kind |-> kind, df |-> df, log |-> log]

SheetStarted == <<LogEntry("INFO", "Processing sheet")>>

\* headers = data[4][:11]
Headers(data) == Truncate(data[HeaderIdx + 1])

\* rows = [row[:11] for row in data[5:]]
DataRows(data) ==
    [r \in 1..(Len(data) - (HeaderIdx + 1)) |-> Truncate(data[r + HeaderIdx + 1])]

\* rows = [[str(cell) if cell is not None else '' for cell in row] for row in rows]
RowsToText(rows) ==
    [r \in 1..Len(rows) |-> [c \in 1..Len(rows[r]) |-> CellToText(rows[r][c])]]

\* df = df.loc[:, df.columns.str.contains('^Unnamed') == False]
FilterUnnamed(df) ==
    Loc(df, [j \in 1..Len(df.columns) |-> NotUnnamed(df.columns[j])])

\* df['File Name'] = os.path.basename(file_path); df['Sheet Name'] = sheet_name
Track(df, file_path, sheet_name) ==
    SetColumn(SetColumn(df, FileNameCol, Text(Basename(file_path))),
              SheetNameCol, Text(<<sheet_name>>))

\* Lines 57-75: the table of a sheet from its DataFrame, or the sheet skipped
\* when the column filter raises.
BuildTable(file_path, sheet_name, df) ==
    IF ~HasStrAccessor(df.columns)
    THEN Outcome("filter_error", EmptyDF,
                 Append(SheetStarted, LogEntry("ERROR", "Error filtering unnamed columns")))
    ELSE Outcome("table", Track(StripColumns(FilterUnnamed(df)), file_path, sheet_name),
                 Append(SheetStarted, LogEntry("INFO", "Columns in sheet")))

\* One iteration of the loop over workbook.sheetnames.  data[4] raises
\* IndexError on a sheet of fewer than five rows.
ProcessSheet(file_path, sheet) ==
    IF SkipSheet(sheet)
    THEN Outcome("skipped", EmptyDF, <<LogEntry("INFO", "Skipping sheet")>>)
    ELSE IF TooFewRows(sheet.values)
    THEN Outcome("too_few", EmptyDF,
                 Append(SheetStarted, LogEntry("WARNING", "has less than 5 rows, skipping")))
    ELSE IF Len(sheet.values) <= HeaderIdx
    THEN Outcome("raised", EmptyDF, SheetStarted)
    ELSE IF Len(DataRows(sheet.values)) = 0
    THEN Outcome("no_rows", EmptyDF,
                 Append(SheetStarted, LogEntry("WARNING", "No valid rows found, skipping")))
    ELSE BuildTable(file_path, sheet.name,
                    DataFrame(RowsToText(DataRows(sheet.values)), Headers(sheet.values)))

\* The iterations of the loop over the sheets, up to the first that raises.
UpToFirstRaise(all) ==
    LET raising == {k \in 1..Len(all) : all[k].kind = "raised"}
    IN  IF raising = {} THEN all
        ELSE SubSeq(all, 1, CHOOSE k \in raising : \A m \in raising : k <= m)

Outcomes(file_path, sheets) ==
    UpToFirstRaise([k \in 1..Len(sheets) |-> ProcessSheet(file_path, sheets[k])])

\* all_data at the end of the loop: the tables appended, in order.
AllData(outcomes) ==
    LET tables == SelectSeq(outcomes, LAMBDA o : o.kind = "table")
    IN  [k \in 1..Len(tables) |-> tables[k].df]

FileLog(outcomes, last) ==
    <<LogEntry("INFO", "Processing file")>>
        \o Flatten([k \in 1..Len(outcomes) |-> outcomes[k].log]) \o last

\* What process_file returns and how: none is "returned None", raised is "the
\* except clause of line 84 ran", loaded is "load_workbook returned a
\* workbook", outcomes are the iterations over its sheets.
FileResult(none, df, raised, loaded, outcomes, last) ==
    [none |-> none, df |-> df, raised |-> raised, loaded |-> loaded,
     outcomes |-> [k \in 1..Len(outcomes) |-> outcomes[k].kind],
     tables |-> [k \in 1..Len(outcomes) |-> outcomes[k].df],
     log |-> FileLog(outcomes, last)]

FileFailed == <<LogEntry("ERROR", "Error processing file")>>

\* Lines 77-82: None when all_data is empty, else its concatenation, whose
\* exception the except clause turns into None.
Return(outcomes, all_data) ==
    IF Len(all_data) = 0
    THEN FileResult(TRUE, EmptyDF, FALSE, TRUE, outcomes,
                    <<LogEntry("WARNING", "No valid data found, returning None")>>)
    ELSE IF Concat(all_data).raised
    THEN FileResult(TRUE, EmptyDF, TRUE, TRUE, outcomes, FileFailed)
    ELSE FileResult(FALSE, Concat(all_data).df, FALSE, TRUE, outcomes, <<>>)

LoopOverSheets(outcomes) ==
    IF \E k \in 1..Len(outcomes) : outcomes[k].kind = "raised"
    THEN FileResult(TRUE, EmptyDF, TRUE, TRUE, outcomes, FileFailed)
    ELSE Return(outcomes, AllData(outcomes))

process_file(file_path, file) ==
    IF ~file.readable
    THEN FileResult(TRUE, EmptyDF, TRUE, FALSE, <<>>, FileFailed)
    ELSE LoopOverSheets(Outcomes(file_path, file.sheets))

(***************************************************************************)
(* Inputs: the directory listing and the workbooks in it                   *)
(***************************************************************************)
\* The value of the cell at Python row r, column c of a sheet: a text, a
\* number or an empty cell, each text and number unique to its cell.
DataCell(fid, sheet_name, r, c) ==
    LET id == <<fid, sheet_name, ToString(r), ToString(c)>>
    IN  CASE (r + c) % 3 = 0 -> Text(id)
          [] (r + c) % 3 = 1 -> Num(id)
          [] OTHER -> None

Hclean == <<Text(<<"ID">>), Text(<<"Name">>)>>
Hblank == <<Text(<<" ", "ID", " ">>), None, Text(<<"Name", " ">>)>>
Hnone == <<None, None>>
Hnum == <<Num(<<"1">>), Num(<<"2">>)>>
Hdup == <<Text(<<"ID">>), Text(<<"ID">>)>>
Hwide == <<Text(<<"ID">>), Text(<<"Name">>), None, Num(<<"7">>),
           Text(<<"Unnamed", ": 4">>), Text(<<" ", "Turno", " ">>),
           Text(<<"G">>), Text(<<"H">>), Text(<<"I">>), Text(<<"J">>),
           Text(<<"K">>), Text(<<"L">>), Text(<<"M">>)>>

\* A worksheet: its name, its sheet_state and sheet.values, of nrows rows as
\* wide as hdr, with hdr as the row of Python index 4.
Sheet(fid, name, state, nrows, hdr) ==
    [name |-> name, sheet_state |-> state,
     values |-> [r \in 1..nrows |->
                    IF r = HeaderIdx + 1 THEN hdr
                    ELSE [c \in 1..Len(hdr) |-> DataCell(fid, name, r - 1, c - 1)]]]

EntryKinds == {"no_eligible", "mixed", "dup_single", "dup_multi", "wide",
               "corrupt", "other_ext"}

\* The sheets of the workbook of each kind of directory entry.
Sheets(kind, fid) ==
    CASE kind = "no_eligible" ->
            <<Sheet(fid, "Hoja1", "visible", 7, Hclean),
              Sheet(fid, "Turno1", "hidden", 7, Hclean)>>
      [] kind = "mixed" ->
            <<Sheet(fid, "Turno1", "visible", 6, Hclean),
              Sheet(fid, "Turno2", "visible", 4, Hclean),
              Sheet(fid, "Turno3", "visible", 5, Hclean),
              Sheet(fid, "Turno4", "visible", 6, Hnum),
              Sheet(fid, "Turno5", "visible", 7, Hblank),
              Sheet(fid, "Hoja1", "visible", 6, Hclean),
              Sheet(fid, "Turno6", "hidden", 6, Hclean),
              Sheet(fid, "Turno7", "visible", 0, Hclean),
              Sheet(fid, "Turno8", "visible", 6, Hnone)>>
      [] kind = "dup_single" -> <<Sheet(fid, "Turno1", "visible", 6, Hdup)>>
      [] kind = "dup_multi" ->
            <<Sheet(fid, "Turno1", "visible", 6, Hclean),
              Sheet(fid, "Turno2", "visible", 3, Hclean),
              Sheet(fid, "Turno3", "visible", 6, Hdup)>>
      [] kind = "wide" ->
            <<Sheet(fid, "Turno1", "visible", 7, Hwide),
              Sheet(fid, "Turno2", "veryHidden", 6, Hclean)>>
      [] kind = "corrupt" -> <<>>
      [] OTHER -> <<Sheet(fid, "Turno1", "visible", 7, Hclean)>>

\* The p-th entry of the directory: its name, whether load_workbook can read
\* it, and its sheets.
Entry(p, kind) ==
    [name |-> <<"F", ToString(p), IF kind = "other_ext" THEN ".txt" ELSE ".xlsx">>,
     readable |-> kind # "corrupt",
     sheets |-> Sheets(kind, ToString(p))]

\* os.listdir(input_folder): every directory of at most MaxFiles entries.
Folders ==
    UNION {{[p \in 1..n |-> Entry(p, kinds[p])] : kinds \in [1..n -> EntryKinds]} :
           n \in 0..MaxFiles}

(***************************************************************************)
(* process_year_folder                                                     *)
(***************************************************************************)
VARIABLES folder, files, i, merged_data, pc, output, writes, log, results, live

vars == <<folder, files, i, merged_data, pc, output, writes, log, results, live>>

input_folder == "2023"

NoOutput == [written |-> FALSE, startrow |-> 0, df |-> EmptyDF]

Init ==
    /\ folder \in Folders
    /\ files = <<>>
    /\ i = 0
    /\ merged_data = <<>>
    /\ pc = "start"
    /\ output = NoOutput
    /\ writes = 0
    /\ log = <<>>
    /\ results = <<>>
    /\ live = {}

\* files = [f for f in os.listdir(input_folder) if f.endswith('.xlsx')]
ListFiles ==
    /\ pc = "start"
    /\ files' = SelectSeq(folder, LAMBDA f : EndsWithXlsx(f.name))
    /\ pc' = "loop"
    /\ UNCHANGED <<folder, i, merged_data, output, writes, log, results, live>>

\* The for loop over files is exhausted.
LoopDoneEarly == i >= Len(files) - 1
LoopDone == i >= Len(files)

\* One iteration of the loop: process_file on the next file, its table kept
\* unless it is None.  A workbook that load_workbook returned is never
\* closed: it stays alive until the garbage collector reclaims it.
ProcessNext ==
    /\ pc = "loop"
    /\ ~LoopDone
    /\ LET file == files[i + 1]
           df == process_file(PathJoin(input_folder, file.name), file)
       IN  /\ merged_data' = IF df.none THEN merged_data ELSE Append(merged_data, df.df)
           /\ results' = Append(results, df)
           /\ log' = log \o <<LogEntry("INFO", "Processing file i/n")>> \o df.log
           /\ live' = IF df.loaded THEN live \cup {file.name} ELSE live
    /\ i' = i + 1
    /\ UNCHANGED <<folder, files, pc, output, writes>>

\* not merged_data
NoDataNever(data) == FALSE
NoData(data) == Len(data) = 0

\* The four annotation columns, each ''.
Annotate(df) ==
    SetColumn(SetColumn(SetColumn(SetColumn(df,
        Text(<<"Ingeniero de Calidad">>), Text(<<>>)),
        Text(<<"Status">>), Text(<<>>)),
        Text(<<"Método 7M">>), Text(<<>>)),
        Text(<<"Fecha">>), Text(<<>>))

\* After the loop: return with an error when nothing was collected, else
\* concatenate (an exception here is not caught), annotate and write.
Finish ==
    /\ pc = "loop"
    /\ LoopDone
    /\ IF NoData(merged_data)
       THEN /\ log' = Append(log, LogEntry("ERROR", "No valid data processed from the folder"))
            /\ pc' = "returned"
            /\ UNCHANGED <<output, writes>>
       ELSE LET merged == Concat(merged_data)
            IN  IF merged.raised
                THEN /\ pc' = "raised"
                     /\ UNCHANGED <<output, writes, log>>
                ELSE /\ output' = [written |-> TRUE, startrow |-> StartRow,
                                   df |-> Annotate(merged.df)]
                     /\ writes' = writes + 1
                     /\ log' = log \o <<LogEntry("INFO", "Final merged columns"),
                                        LogEntry("INFO", "Saved merged data")>>
                     /\ pc' = "returned"
    /\ UNCHANGED <<folder, files, i, merged_data, results, live>>

\* The garbage collector reclaims the workbooks no longer referenced.
Collect ==
    /\ live # {}
    /\ live' = {}
    /\ UNCHANGED <<folder, files, i, merged_data, pc, output, writes, log, results>>

Next == ListFiles \/ ProcessNext \/ Finish \/ Collect

Spec == Init /\ [][Next]_vars

(***************************************************************************)
(* Vocabulary of the properties                                            *)
(***************************************************************************)
Terminal == pc \in {"returned", "raised"}

\* The files process_file has returned for: files[j] with results[j].
Processed == 1..Len(results)

SheetsOf(j) == 1..Len(files[j].sheets)

\* The value of row r of df under the (first) column labelled name.
Value(df, r, name) ==
    df.rows[r][CHOOSE p \in 1..Len(df.columns) : df.columns[p] = name]

\* Row r of df is tracked as coming from the sheet of the file.
RowFromSheet(df, r, file, sheet) ==
    /\ Value(df, r, FileNameCol) = Text(file.name)
    /\ Value(df, r, SheetNameCol) = Text(<<sheet.name>>)

\* v is the text of a cell of the sheet of the file (see DataCell).
CellFromSheet(v, file, sheet) ==
    /\ v.k = "str"
    /\ Len(v.s) = 4
    /\ v.s[1] = file.name[2]
    /\ v.s[2] = sheet.name

\* No row and no cell value of the sheet is in df.
SheetAbsent(df, file, sheet) ==
    \A r \in 1..Len(df.rows) :
        /\ ~RowFromSheet(df, r, file, sheet)
        /\ \A c \in 1..Len(df.rows[r]) : ~CellFromSheet(df.rows[r][c], file, sheet)

\* v is a column label or a value of df.
Occurs(df, v) ==
    \/ \E c \in 1..Len(df.columns) : df.columns[c] = v
    \/ \E r \in 1..Len(df.rows) : \E c \in 1..Len(df.rows[r]) : df.rows[r][c] = v

\* Every row of sub is a row of df, under the same labels.
RowsPresent(sub, df) ==
    \A r \in 1..Len(sub.rows) : \E q \in 1..Len(df.rows) :
        \A c \in 1..Len(sub.columns) : \E p \in 1..Len(df.columns) :
            /\ df.columns[p] = sub.columns[c]
            /\ df.rows[q][p] = sub.rows[r][c]

AllNone == \A j \in Processed : results[j].none

(***************************************************************************)
(* C1                                                                      *)
(***************************************************************************)
\* C1: a file whose opening or processing raises yields None and never
\* aborts the batch: every file is processed, the run returns, and the rows
\* of every other file that yields a table are in the written table.
C1_RaisingFileNeverAbortsBatch ==
    \A j \in Processed :
        results[j].raised =>
            /\ results[j].none
            /\ Terminal =>
                /\ pc = "returned"
                /\ Len(results) = Len(files)
                /\ \A m \in Processed \ {j} :
                       ~results[m].none =>
                           /\ output.written
                           /\ RowsPresent(results[m].df, output.df)

(***************************************************************************)
(* C2                                                                      *)
(***************************************************************************)
\* C2: no row of a worksheet named 'Hoja1', or whose sheet_state is not
\* 'visible', is in the table process_file returns or in the written table.
C2_ReservedOrNotVisibleSheetAbsent ==
    \A j \in Processed : \A k \in SheetsOf(j) :
        LET sheet == files[j].sheets[k]
        IN  (sheet.name = "Hoja1" \/ sheet.sheet_state # "visible") =>
                /\ SheetAbsent(results[j].df, files[j], sheet)
                /\ SheetAbsent(output.df, files[j], sheet)

(***************************************************************************)
(* C3                                                                      *)
(***************************************************************************)
\* C3: a worksheet of fewer than 5 rows is skipped as a sheet (by the
\* name/hidden test or by the row-count test), yields no table, and none of
\* its rows or cell values is in the file's table or in the written table.
C3_FewRowsSheetExcluded ==
    \A j \in Processed : \A k \in SheetsOf(j) :
        LET sheet == files[j].sheets[k]
        IN  Len(sheet.values) < 5 =>
                /\ k <= Len(results[j].outcomes)
                /\ results[j].outcomes[k] \in {"skipped", "too_few"}
                /\ results[j].tables[k] = EmptyDF
                /\ SheetAbsent(results[j].df, files[j], sheet)
                /\ SheetAbsent(output.df, files[j], sheet)

\* A table was written with rows of a workbook that holds a visible sheet of
\* fewer than 5 (and more than 0) rows, skipped by the row-count test.
C3_Witness ==
    /\ output.written
    /\ \E j \in Processed : \E k \in SheetsOf(j) :
           /\ Len(files[j].sheets[k].values) \in 1..4
           /\ results[j].outcomes[k] = "too_few"
           /\ ~results[j].none
           /\ \E r \in 1..Len(output.df.rows) :
                  Value(output.df, r, FileNameCol) = Text(files[j].name)

(***************************************************************************)
(* C4                                                                      *)
(***************************************************************************)
\* C4: while no file has yielded data nothing is written, and a run in
\* which no file yields data ends by returning (not by an exception) with the
\* error logged last and the output never written.
C4_EmptyBatchWritesNothing ==
    AllNone =>
        /\ writes = 0
        /\ ~output.written
        /\ Terminal =>
               /\ pc = "returned"
               /\ Len(log) > 0
               /\ log[Len(log)] =
                      LogEntry("ERROR", "No valid data processed from the folder")

\* The run ended on a folder of at least three entries: a file that cannot be
\* read, a file whose sheets are all skipped, and an entry that is no .xlsx.
C4_Witness ==
    /\ pc = "returned"
    /\ AllNone
    /\ Len(folder) > Len(files)
    /\ \E j \in Processed : results[j].raised
    /\ \E j \in Processed : ~results[j].raised /\ Len(results[j].outcomes) > 0

(***************************************************************************)
(* C5                                                                      *)
(***************************************************************************)
\* Column c (1-based, within A-K) of the sheet's data is column p of table.
SameColumn(sheet, c, table, p) ==
    \A r \in 1..Len(table.rows) :
        table.rows[r][p] = CellToText(sheet.values[r + HeaderIdx + 1][c])

\* C5: in the table extracted from a worksheet, a column of A-K whose header
\* cell is empty is absent, and every column whose header is not empty after
\* trimming is present under its trimmed name.
C5_HeaderBlankFiltering ==
    \A j \in Processed : \A k \in 1..Len(results[j].outcomes) :
        results[j].outcomes[k] = "table" =>
            LET sheet == files[j].sheets[k]
                table == results[j].tables[k]
                hdr == sheet.values[HeaderIdx + 1]
            IN  \A c \in 1..Len(hdr) :
                    c <= 11 =>
                        /\ hdr[c].k = "none" =>
                               ~\E p \in 1..Len(table.columns) :
                                    SameColumn(sheet, c, table, p)
                        /\ (hdr[c].k # "none" /\ Strip(hdr[c].s) # <<>>) =>
                               \E p \in 1..Len(table.columns) :
                                    /\ table.columns[p] = Text(Strip(hdr[c].s))
                                    /\ SameColumn(sheet, c, table, p)

(***************************************************************************)
(* C6                                                                      *)
(***************************************************************************)
\* The labels and texts of the cells of the sheet at column index 11 or
\* beyond, in the header row and the data rows.
BeyondK(sheet) ==
    {CellToText(sheet.values[r][c]) :
        r \in (HeaderIdx + 1)..Len(sheet.values),
        c \in 12..(IF Len(sheet.values) > 0 THEN Len(sheet.values[1]) ELSE 0)}
    \ {Text(<<>>)}

\* C6: no header and no cell value of column index 11 or beyond of a
\* worksheet is in the table extracted from it, in the table process_file
\* returns or in the written table.
C6_ColumnTruncation ==
    \A j \in Processed : \A k \in SheetsOf(j) :
        \A v \in BeyondK(files[j].sheets[k]) :
            /\ k <= Len(results[j].tables) => ~Occurs(results[j].tables[k], v)
            /\ ~Occurs(results[j].df, v)
            /\ ~Occurs(output.df, v)

\* A table was written that holds the header and a value of column K (index
\* 10) of a worksheet that is wider than 11 columns.
C6_Witness ==
    /\ output.written
    /\ \E j \in Processed : \E k \in SheetsOf(j) :
           LET sheet == files[j].sheets[k]
           IN  /\ BeyondK(sheet) # {}
               /\ results[j].outcomes[k] = "table"
               /\ Occurs(output.df, CellToText(sheet.values[HeaderIdx + 1][11]))
               /\ Occurs(output.df, CellToText(sheet.values[HeaderIdx + 2][11]))

(***************************************************************************)
(* C7                                                                      *)
(***************************************************************************)
\* A worksheet is eligible: not the reserved name, visible, at least 5 rows.
Eligible(sheet) ==
    /\ sheet.name # "Hoja1"
    /\ sheet.sheet_state = "visible"
    /\ Len(sheet.values) >= 5

\* The data rows (Python index 5 onward) of the eligible worksheets, in file
\* order, then worksheet order, then row order.
ExpectedRows ==
    Flatten([j \in 1..Len(files) |->
        Flatten([k \in 1..Len(files[j].sheets) |->
            IF Eligible(files[j].sheets[k])
            THEN [r \in 1..(Len(files[j].sheets[k].values) - 5) |->
                     [file |-> files[j].name, sheet |-> files[j].sheets[k].name,
                      row |-> ToString(r + 4)]]
            ELSE <<>>])])

\* Row q of df is the expected row e: its File Name and Sheet Name, and each
\* of its cell values is of row e.row of that sheet.
IsExpectedRow(df, q, e) ==
    /\ Value(df, q, FileNameCol) = Text(e.file)
    /\ Value(df, q, SheetNameCol) = Text(<<e.sheet>>)
    /\ \A c \in 1..Len(df.rows[q]) :
           (df.rows[q][c].k = "str" /\ Len(df.rows[q][c].s) = 4) =>
               /\ df.rows[q][c].s[1] = e.file[2]
               /\ df.rows[q][c].s[2] = e.sheet
               /\ df.rows[q][c].s[3] = e.row

\* C7: when at least one file yields data, the rows of the written table are
\* exactly the data rows of the eligible worksheets, in file, worksheet and
\* row order, each with its File Name and Sheet Name.
C7_RowsAreEligibleDataRowsInOrder ==
    (Terminal /\ ~AllNone) =>
        /\ output.written
        /\ Len(output.df.rows) = Len(ExpectedRows)
        /\ \A q \in 1..Len(output.df.rows) :
               IsExpectedRow(output.df, q, ExpectedRows[q])

(***************************************************************************)
(* C8                                                                      *)
(***************************************************************************)
\* C8: the output is written at most once, and only when process_file has
\* returned for every entry of the folder whose name ends with .xlsx.
C8_WrittenOnceAfterAllFiles ==
    /\ writes <= 1
    /\ output.written <=> writes = 1
    /\ writes >= 1 =>
           /\ Len(results) = Len(SelectSeq(folder, LAMBDA f : EndsWithXlsx(f.name)))
           /\ \A j \in Processed :
                  /\ files[j] = SelectSeq(folder, LAMBDA f : EndsWithXlsx(f.name))[j]
                  /\ results[j].loaded = files[j].readable

\* A table was written for a folder of at least two matching files and an
\* entry that does not match.
C8_Witness ==
    /\ writes = 1
    /\ Len(files) >= 2
    /\ Len(folder) > Len(files)

C10_SheetFailureExcludesOnlyThatSheet ==
    \A j \in Processed : \A k \in 1..Len(results[j].outcomes) :
        results[j].outcomes[k] \in {"too_few", "no_rows", "filter_error"} =>
            /\ SheetAbsent(results[j].df, files[j], files[j].sheets[k])
            /\ Len(results[j].outcomes) = Len(files[j].sheets)
            /\ \A m \in 1..Len(results[j].outcomes) :
                   results[j].outcomes[m] = "table" =>
                       /\ ~results[j].none
                       /\ RowsPresent(results[j].tables[m], results[j].df)

====
